---- MODULE Spec2Model ----
(***************************************************************************)
(* Page monitor (src/main.py): main() publishes a start message, fetches   *)
(* the page once to get an initial SHA1 fingerprint and then loops:        *)
(* fetch, compare, publish, sleep, until enough changes were seen or an    *)
(* unexpected exception ended the loop; then it quits the web driver and   *)
(* publishes a stop message.                                               *)
(*                                                                         *)
(* The program is sequential.  pc is the position of main(); one action    *)
(* per statement that talks to the outside (driver.get / wait.until,       *)
(* sns.publish, time.sleep, driver.quit).  The outcomes of the fetches and *)
(* of the publish calls are the inputs, drawn with \E.  trace records, in  *)
(* order, what the outside saw (fetches, delivered messages, sleeps, the   *)
(* quit); the claims are stated over it.                                   *)
(***************************************************************************)
EXTENDS Integers, Sequences, FiniteSets, TLC

\* ---------------------------------------------------------------- bounds
\* Largest value of WEB_PAGE_MONITOR_CHANGES_TO_EXIT explored (source: 10).
MaxChangesToExit == 2
\* Largest value of TIME_TO_REPORT_STATUS_MIN explored (source: 120).
MaxReportEvery == 2
\* Loop iterations explored in one run.
MaxCycles == 4

\* ------------------------------------------------------------- constants
CHANGE_STATUS_TOPIC == "arn:aws:sns:us-west-2:868131308206:RuEmbassyMonitor"
\* Mutant: the health topic set to the ARN of the change topic.
HealthTopicSameAsChange == CHANGE_STATUS_TOPIC
HEALTH_STATUS_TOPIC == "arn:aws:sns:us-west-2:868131308206:ServerStatus"
MSG_CHANGE_DETECTED == "The page has been changed. Go check: https://canada.mid.ru/ru_RU/novosti"
MSG_START == "Start monitoring https://canada.mid.ru/ru_RU/novosti"
\* Mutant: the status report reuses the start message.
MsgStatusCopiedFromStart == MSG_START
MSG_STATUS == "Status: No change. Keep monitoring"
MSG_STOPPED == "Script to monitor https://canada.mid.ru/ru_RU/novosti has stopped"

\* Texts the monitored element can show.
Texts == {"A", "B"}
\* What traceback.format_exc() renders for an unexpected failure of a fetch.
FetchErrors == {"WebDriverException: connection reset"}
\* What traceback.format_exc() renders for a failed sns.publish.
PublishError == "ClientError: publish failed"

\* hashlib.sha1(text.encode("utf-8")).hexdigest() on the texts of the model.
get_sha1_hash(text) ==
    CASE text = "A" -> "6dcd4ce23d88e2ee9568ba546c007c63d9131c1b"
      [] text = "B" -> "ae4f281df5a5d0ff3cad6371f76d5c29b6d953ec"
      [] OTHER      -> "da39a3ee5e6b4b0d3255bfef95601890afd80709"

\* Outcomes of driver.get + wait.until + element.text.
FetchResults ==
    [kind : {"Success"}, text : Texts]
    \cup {[kind |-> "NotFound"], [kind |-> "Timeout"]}
    \cup [kind : {"UnexpectedError"}, detail : FetchErrors]

\* No value yet (a Python name not yet bound).
None == "None"

VARIABLES
    pc,                                \* position in main()
    WEB_PAGE_MONITOR_CHANGES_TO_EXIT,  \* configuration, fixed for a run
    TIME_TO_REPORT_STATUS_MIN,         \* configuration, fixed for a run
    init_hash,                         \* last stored fingerprint
    current_hash,                      \* fingerprint of this cycle's fetch
    change_counter,
    time_counter,
    exc,                               \* traceback of the exception in flight
    after,                             \* what follows the finally block
    cycles,                            \* loop iterations started
    trace                              \* fetches, deliveries, sleeps, quit

vars == <<pc, WEB_PAGE_MONITOR_CHANGES_TO_EXIT, TIME_TO_REPORT_STATUS_MIN,
          init_hash, current_hash, change_counter, time_counter, exc, after,
          cycles, trace>>

config == <<WEB_PAGE_MONITOR_CHANGES_TO_EXIT, TIME_TO_REPORT_STATUS_MIN>>

\* ------------------------------------------------------- trace vocabulary
EvPublish(topic, msg) == [op |-> "publish", topic |-> topic, msg |-> msg]
EvPublishFailed(topic, msg) == [op |-> "publish_failed", topic |-> topic, msg |-> msg]
EvFetch(res, stored)  == [op |-> "fetch", res |-> res, stored |-> stored]
EvSleep               == [op |-> "sleep"]
EvQuit                == [op |-> "quit"]

\* sns.publish(TopicArn=topic, Message=msg): delivered (ok) or raised.
Publish(topic, msg, ok) ==
    trace' = Append(trace, IF ok THEN EvPublish(topic, msg)
                                 ELSE EvPublishFailed(topic, msg))

Init ==
    /\ pc = "start"
    /\ WEB_PAGE_MONITOR_CHANGES_TO_EXIT \in 0..MaxChangesToExit
    /\ TIME_TO_REPORT_STATUS_MIN \in 1..MaxReportEvery
    /\ init_hash = None
    /\ current_hash = None
    /\ change_counter = 0
    /\ time_counter = 0
    /\ exc = None
    /\ after = None
    /\ cycles = 0
    /\ trace = <<>>

\* lines 121-125: the start message; an exception here leaves main().
PublishStart ==
    /\ pc = "start"
    /\ \E ok \in BOOLEAN :
          /\ Publish(HEALTH_STATUS_TOPIC, MSG_START, ok)
          /\ pc' = IF ok THEN "bootstrap" ELSE "crashed"
    /\ UNCHANGED <<config, init_hash, current_hash, change_counter,
                   time_counter, exc, after, cycles>>

\* Mutant: the bootstrap fetch is tried again after NotFound or Timeout.
AfterBootstrapRetry(res) ==
    IF res.kind = "Success" THEN "while"
    ELSE IF res.kind \in {"NotFound", "Timeout"} THEN "bootstrap"
    ELSE "crashed"

\* lines 127-134 are in no try block: whatever they raise leaves main().
AfterBootstrap(res) == IF res.kind = "Success" THEN "while" ELSE "crashed"

\* lines 127-137: the first fetch, outside any try; counters start at 0.
BootstrapFetch ==
    /\ pc = "bootstrap"
    /\ \E res \in FetchResults :
          /\ trace' = Append(trace, EvFetch(res, init_hash))
          /\ IF res.kind = "Success"
                THEN /\ init_hash' = get_sha1_hash(res.text)
                     /\ change_counter' = 0
                     /\ time_counter' = 0
                ELSE UNCHANGED <<init_hash, change_counter, time_counter>>
          /\ pc' = AfterBootstrap(res)
    /\ UNCHANGED <<config, current_hash, exc, after, cycles>>

\* Mutant: the loop condition off by one (<= for <).
LoopConditionInclusive == change_counter <= WEB_PAGE_MONITOR_CHANGES_TO_EXIT

\* line 139: the loop condition.
LoopCondition == change_counter < WEB_PAGE_MONITOR_CHANGES_TO_EXIT

\* line 139: enter the body or leave the loop.
WhileTest ==
    /\ pc = "while"
    /\ pc' = IF LoopCondition THEN "fetch" ELSE "quit"
    /\ UNCHANGED <<config, init_hash, current_hash, change_counter,
                   time_counter, exc, after, cycles, trace>>

\* traceback.format_exc() for the exception a failed fetch raised.
Traceback(res) ==
    IF res.kind = "UnexpectedError" THEN res.detail
    ELSE IF res.kind = "NotFound" THEN "NoSuchElementException"
    ELSE "TimeoutException"

\* Mutant: the except clause for TimeoutException is missing.
RecoverableNotFoundOnly(res) == res.kind = "NotFound"

\* lines 176-180: the two exceptions that are logged and otherwise ignored.
Recoverable(res) == res.kind \in {"NotFound", "Timeout"}

\* lines 141-145 with the except clauses that catch what they raise:
\* 176-180 (NoSuchElementException, TimeoutException) fall to the finally.
CycleFetch ==
    /\ pc = "fetch"
    /\ cycles < MaxCycles
    /\ cycles' = cycles + 1
    /\ \E res \in FetchResults :
          /\ trace' = Append(trace, EvFetch(res, init_hash))
          /\ CASE res.kind = "Success" ->
                      /\ current_hash' = get_sha1_hash(res.text)
                      /\ pc' = "compare"
                      /\ UNCHANGED <<exc, after>>
               [] Recoverable(res) ->
                      /\ pc' = "finally"
                      /\ after' = "continue"
                      /\ UNCHANGED <<current_hash, exc>>
               [] OTHER ->
                      /\ pc' = "except"
                      /\ exc' = Traceback(res)
                      /\ UNCHANGED <<current_hash, after>>
    /\ UNCHANGED <<config, init_hash, change_counter, time_counter>>

\* line 147.
Compare ==
    /\ pc = "compare"
    /\ pc' = IF init_hash # current_hash THEN "changed" ELSE "nochange"
    /\ UNCHANGED <<config, init_hash, current_hash, change_counter,
                   time_counter, exc, after, cycles, trace>>

\* lines 151-154: the change message on the change topic.
PublishChange ==
    /\ pc = "changed"
    /\ \E ok \in BOOLEAN :
          /\ Publish(CHANGE_STATUS_TOPIC, MSG_CHANGE_DETECTED, ok)
          /\ pc' = IF ok THEN "echo" ELSE "except"
          /\ exc' = IF ok THEN exc ELSE PublishError
    /\ UNCHANGED <<config, init_hash, current_hash, change_counter,
                   time_counter, after, cycles>>

\* Mutant: the new fingerprint is stored but the change is not counted.
StoreChangeUncounted ==
    /\ init_hash' = current_hash
    /\ change_counter' = change_counter
    /\ time_counter' = time_counter

\* Mutant: the fingerprint is not stored, the change is counted.
StoreChangeKeepsHash ==
    /\ init_hash' = init_hash
    /\ change_counter' = change_counter + 1
    /\ time_counter' = time_counter

\* Mutant: a change also restarts the status report clock.
StoreChangeResetsReport ==
    /\ init_hash' = current_hash
    /\ change_counter' = change_counter + 1
    /\ time_counter' = 0

\* What lines 161-162 store once both messages went out; time_counter is
\* not touched in this branch.
StoreChange ==
    /\ init_hash' = current_hash
    /\ change_counter' = change_counter + 1
    /\ time_counter' = time_counter

\* lines 156-162: the same message on the health topic, then the update.
PublishEcho ==
    /\ pc = "echo"
    /\ \E ok \in BOOLEAN :
          /\ Publish(HEALTH_STATUS_TOPIC, MSG_CHANGE_DETECTED, ok)
          /\ IF ok
                THEN /\ StoreChange
                     /\ pc' = "finally"
                     /\ after' = "continue"
                     /\ exc' = exc
                ELSE /\ pc' = "except"
                     /\ exc' = PublishError
                     /\ UNCHANGED <<init_hash, change_counter, time_counter,
                                    after>>
    /\ UNCHANGED <<config, current_hash, cycles>>

\* Mutant: the counter is incremented before it is compared.
ReportDueAfterIncrement == time_counter + 1 >= TIME_TO_REPORT_STATUS_MIN

\* line 166: is a status report due?
ReportDue == time_counter >= TIME_TO_REPORT_STATUS_MIN

\* Mutant: the increment sits in an else branch of the report.
CountNoChangeElse(reported) ==
    time_counter' = IF reported THEN 0 ELSE time_counter + 1

\* lines 172-174: reset if a report went out, then count this cycle.
CountNoChange(reported) ==
    time_counter' = (IF reported THEN 0 ELSE time_counter) + 1

\* lines 164-174: the no-change branch.
NoChange ==
    /\ pc = "nochange"
    /\ IF ReportDue
          THEN \E ok \in BOOLEAN :
                  /\ Publish(HEALTH_STATUS_TOPIC, MSG_STATUS, ok)
                  /\ IF ok
                        THEN /\ CountNoChange(TRUE)
                             /\ pc' = "finally"
                             /\ after' = "continue"
                             /\ exc' = exc
                        ELSE /\ pc' = "except"
                             /\ exc' = PublishError
                             /\ UNCHANGED <<time_counter, after>>
          ELSE /\ CountNoChange(FALSE)
               /\ pc' = "finally"
               /\ after' = "continue"
               /\ UNCHANGED <<exc, trace>>
    /\ UNCHANGED <<config, init_hash, current_hash, change_counter, cycles>>

\* Mutant: the pause is at the end of the try body, not in a finally, so
\* the handler's break (or its exception) leaves the loop without it.
ExceptHandlerNoPause ==
    /\ pc = "except"
    /\ \E ok \in BOOLEAN :
          /\ Publish(HEALTH_STATUS_TOPIC, exc, ok)
          /\ pc' = IF ok THEN "quit" ELSE "crashed"
          /\ exc' = IF ok THEN None ELSE PublishError
    /\ UNCHANGED <<config, init_hash, current_hash, change_counter,
                   time_counter, after, cycles>>

\* lines 182-192: except Exception: publish the traceback, then break.  If
\* this publish raises, the new exception leaves main() after the finally.
ExceptHandler ==
    /\ pc = "except"
    /\ \E ok \in BOOLEAN :
          /\ Publish(HEALTH_STATUS_TOPIC, exc, ok)
          /\ after' = IF ok THEN "break" ELSE "raise"
          /\ exc' = IF ok THEN None ELSE PublishError
    /\ pc' = "finally"
    /\ UNCHANGED <<config, init_hash, current_hash, change_counter,
                   time_counter, cycles>>

\* Mutant: the pause is left out.
SleepSkipped == trace' = trace

\* line 197: time.sleep(INTERVAL_TO_CHECK_FOR_CHANGE_SEC).
Sleep == trace' = Append(trace, EvSleep)

\* lines 194-197: finally: sleep, then continue, break or re-raise.
Finally ==
    /\ pc = "finally"
    /\ Sleep
    /\ pc' = CASE after = "continue" -> "while"
               [] after = "break"    -> "quit"
               [] OTHER              -> "crashed"
    /\ after' = None
    /\ UNCHANGED <<config, init_hash, current_hash, change_counter,
                   time_counter, exc, cycles>>

\* Mutant: driver.quit() is never called.
QuitForgotten ==
    /\ pc = "quit"
    /\ pc' = "stop"
    /\ UNCHANGED <<config, init_hash, current_hash, change_counter,
                   time_counter, exc, after, cycles, trace>>

\* line 199: driver.quit().
Quit ==
    /\ pc = "quit"
    /\ trace' = Append(trace, EvQuit)
    /\ pc' = "stop"
    /\ UNCHANGED <<config, init_hash, current_hash, change_counter,
                   time_counter, exc, after, cycles>>

\* lines 203-207: the stop message; main() returns.
PublishStopped ==
    /\ pc = "stop"
    /\ \E ok \in BOOLEAN :
          /\ Publish(HEALTH_STATUS_TOPIC, MSG_STOPPED, ok)
          /\ pc' = IF ok THEN "done" ELSE "crashed"
    /\ UNCHANGED <<config, init_hash, current_hash, change_counter,
                   time_counter, exc, after, cycles>>

Next ==
    \/ PublishStart
    \/ BootstrapFetch
    \/ WhileTest
    \/ CycleFetch
    \/ Compare
    \/ PublishChange
    \/ PublishEcho
    \/ NoChange
    \/ ExceptHandler
    \/ Finally
    \/ Quit
    \/ PublishStopped

Spec == Init /\ [][Next]_vars

\* ===================================================================
\* Reading the trace
\* ===================================================================
Idx == DOMAIN trace

IsFetch(i) == trace[i].op = "fetch"

\* A fetch of the loop: one made with a fingerprint already stored (the
\* bootstrap fetch is the one made with none).
IsCycleFetch(i) == i \in Idx /\ IsFetch(i) /\ trace[i].stored # None

CycleFetchIdx == {i \in Idx : IsCycleFetch(i)}

Delivered(i, topic, msg) == i \in Idx /\ trace[i] = EvPublish(topic, msg)

Failed(i) == i \in Idx /\ trace[i].op = "publish_failed"

\* A publish call was made at i with msg, delivered or not.
Attempted(i, msg) ==
    /\ i \in Idx
    /\ trace[i].op \in {"publish", "publish_failed"}
    /\ trace[i].msg = msg

\* The cycle that starts at i fetched a fingerprint unlike the stored one.
DiffersCycle(i) ==
    /\ IsCycleFetch(i)
    /\ trace[i].res.kind = "Success"
    /\ get_sha1_hash(trace[i].res.text) # trace[i].stored

\* The cycle that starts at i fetched the stored fingerprint again.
SameCycle(i) ==
    /\ IsCycleFetch(i)
    /\ trace[i].res.kind = "Success"
    /\ get_sha1_hash(trace[i].res.text) = trace[i].stored

\* The cycle that starts at i delivered the change message on both topics.
Notified(i) ==
    /\ Delivered(i + 1, CHANGE_STATUS_TOPIC, MSG_CHANGE_DETECTED)
    /\ Delivered(i + 2, HEALTH_STATUS_TOPIC, MSG_CHANGE_DETECTED)

\* main() is not in the middle of a loop iteration.
AtCycleBoundary ==
    pc \notin {"compare", "changed", "echo", "nochange", "except", "finally"}

\* A generic exception was raised inside the loop: by a fetch, or by a
\* publish call of the loop body or of the except handler.
UnexpectedInLoop ==
    \E i \in Idx :
        \/ IsCycleFetch(i) /\ trace[i].res.kind = "UnexpectedError"
        \/ Failed(i) /\ trace[i].msg \notin {MSG_START, MSG_STOPPED}

\* ===================================================================
\* C1
\* ===================================================================
\* C1 as stated: at the end of every cycle change_counter is the number of
\* cycles whose fetch succeeded with a fingerprint unlike the stored one.
C1_AsStated ==
    AtCycleBoundary =>
        change_counter = Cardinality({i \in Idx : DiffersCycle(i)})

\* C1, amended: at the end of every cycle change_counter is the number of
\* cycles whose fetch succeeded with a fingerprint unlike the stored one
\* and whose change message was delivered on both topics; so it grows by
\* one in such a cycle and stays as it is in every other cycle.
C1_ChangeCount ==
    AtCycleBoundary =>
        change_counter =
            Cardinality({i \in Idx : DiffersCycle(i) /\ Notified(i)})

\* A counted change, and later a differing fetch that was not counted.
C1_Witness ==
    /\ AtCycleBoundary
    /\ change_counter >= 1
    /\ \E i \in Idx : DiffersCycle(i) /\ ~Notified(i)

\* ===================================================================
\* C2
\* ===================================================================
\* C2: once the bootstrap fetch has succeeded, main() is past the loop
\* exactly when change_counter has reached the maximum or a generic
\* exception was raised in the loop; otherwise the next fetch is due.
C2_LoopExit ==
    (init_hash # None /\ pc \in {"fetch", "quit", "stop", "done", "crashed"})
        => ((pc # "fetch") <=>
               (\/ change_counter >= WEB_PAGE_MONITOR_CHANGES_TO_EXIT
                \/ UnexpectedInLoop))

\* The loop was left by an unexpected error before the maximum was reached.
C2_Witness ==
    /\ pc = "done"
    /\ UnexpectedInLoop
    /\ change_counter >= 1
    /\ change_counter < WEB_PAGE_MONITOR_CHANGES_TO_EXIT

\* ===================================================================
\* C3
\* ===================================================================
\* The cycle that starts at i is the n-th no-change cycle of the run.
NoChangeRank(i) == Cardinality({j \in Idx : SameCycle(j) /\ j <= i})

\* The cycle that starts at i made the status report call.
EmittedHealth(i) == Attempted(i + 1, MSG_STATUS)

\* Status reports are only ever made by no-change cycles.
OnlyNoChangeReports ==
    \A i \in Idx : Attempted(i, MSG_STATUS) => (i > 1 /\ SameCycle(i - 1))

\* C3 as stated: the status report is made on exactly the N-th, 2N-th,
\* ... no-change cycle (N = TIME_TO_REPORT_STATUS_MIN) and on no other.
C3_AsStated ==
    AtCycleBoundary =>
        /\ OnlyNoChangeReports
        /\ \A i \in Idx : SameCycle(i) =>
              (EmittedHealth(i) <=>
                  NoChangeRank(i) % TIME_TO_REPORT_STATUS_MIN = 0)

\* C3, amended: the counter is compared before it is incremented, so the
\* status report is made on exactly the (N+1)-th, (2N+1)-th, ... no-change
\* cycle and on no other cycle (for N = 2: on the third of three
\* no-change cycles).
C3_HealthCadence ==
    AtCycleBoundary =>
        /\ OnlyNoChangeReports
        /\ \A i \in Idx : SameCycle(i) =>
              (EmittedHealth(i) <=>
                  /\ NoChangeRank(i) > 1
                  /\ (NoChangeRank(i) - 1) % TIME_TO_REPORT_STATUS_MIN = 0)

\* With N = 2 the third no-change cycle delivered the status report.
C3_Witness ==
    /\ AtCycleBoundary
    /\ TIME_TO_REPORT_STATUS_MIN = 2
    /\ \E i \in Idx :
          /\ SameCycle(i)
          /\ NoChangeRank(i) = 3
          /\ Delivered(i + 1, HEALTH_STATUS_TOPIC, MSG_STATUS)

\* ===================================================================
\* C4
\* ===================================================================
\* The last cycle started delivered the status report.
LastCycleReported ==
    \E i \in CycleFetchIdx :
        /\ \A j \in CycleFetchIdx : j <= i
        /\ Delivered(i + 1, HEALTH_STATUS_TOPIC, MSG_STATUS)

\* C4 as stated: time_counter is 0 at the end of every cycle that emitted
\* the status report, and it never exceeds TIME_TO_REPORT_STATUS_MIN.
C4_AsStated ==
    /\ (AtCycleBoundary /\ LastCycleReported) => time_counter = 0
    /\ time_counter <= TIME_TO_REPORT_STATUS_MIN

\* C4, amended: time_counter is 1 at the end of every cycle that delivered
\* the status report (it is reset to 0 and then incremented in that same
\* cycle), and in every reachable state it is between 0 and
\* TIME_TO_REPORT_STATUS_MIN.
C4_CounterRange ==
    /\ (AtCycleBoundary /\ LastCycleReported) => time_counter = 1
    /\ time_counter >= 0
    /\ time_counter <= TIME_TO_REPORT_STATUS_MIN

\* A cycle with threshold 2 has just delivered the status report.
C4_Witness ==
    /\ pc = "while"
    /\ LastCycleReported
    /\ TIME_TO_REPORT_STATUS_MIN = 2

\* ===================================================================
\* C5
\* ===================================================================
\* The fetch at i is a cycle's fetch that failed unexpectedly.
FatalFetch(i) ==
    IsCycleFetch(i) /\ trace[i].res.kind = "UnexpectedError"

\* main() has ended, by returning or by an exception.
RunEnded == pc \in {"done", "crashed"}

\* The publish call at i was made on the health topic with msg.
AttemptedOnHealth(i, msg) ==
    Attempted(i, msg) /\ trace[i].topic = HEALTH_STATUS_TOPIC

\* C5: after a cycle's fetch failed unexpectedly with detail d, the next
\* call publishes d on the health topic, no fetch follows, and when the
\* run has ended the driver was quit and the stop message was then
\* published on the health topic (the call was made, whatever became of
\* it).
C5_AsStated ==
    \A i \in Idx : FatalFetch(i) =>
        /\ pc # "except" =>
              AttemptedOnHealth(i + 1, trace[i].res.detail)
        /\ \A j \in Idx : j > i => ~IsFetch(j)
        /\ RunEnded =>
              \E q, r \in Idx :
                  /\ i < q /\ q < r
                  /\ trace[q] = EvQuit
                  /\ AttemptedOnHealth(r, MSG_STOPPED)

\* ===================================================================
\* C6
\* ===================================================================
\* The last fetch of tr is a cycle's fetch that ended NotFound or Timeout.
RecoverableLast(tr) ==
    \E i \in DOMAIN tr :
        /\ tr[i].op = "fetch"
        /\ tr[i].res.kind \in {"NotFound", "Timeout"}
        /\ tr[i].stored # None
        /\ \A j \in (i + 1)..Len(tr) : tr[j].op # "fetch"

\* The publish calls of tr, delivered or not.
Pubs(tr) == SelectSeq(tr, LAMBDA e : e.op \in {"publish", "publish_failed"})

\* C6: every step of a cycle whose fetch ended NotFound or Timeout (the
\* fetch, the pause, the loop test) leaves init_hash, change_counter and
\* time_counter as they are and makes no publish call, and the cycle is
\* followed by the next fetch.
C6_RecoverableFrame ==
    [][ (pc \in {"fetch", "finally", "while"} /\ RecoverableLast(trace')) =>
          /\ UNCHANGED <<init_hash, change_counter, time_counter>>
          /\ Pubs(trace') = Pubs(trace)
          /\ pc' = CASE pc = "fetch"   -> "finally"
                      [] pc = "finally" -> "while"
                      [] OTHER          -> "fetch" ]_vars

\* A Timeout cycle is over and the next fetch is due, counters not zero.
C6_Witness ==
    /\ pc = "fetch"
    /\ RecoverableLast(trace)
    /\ trace[Len(trace) - 1].res.kind = "Timeout"
    /\ change_counter >= 1
    /\ time_counter >= 1

\* ===================================================================
\* C7
\* ===================================================================
PublishIdx == {i \in Idx : trace[i].op \in {"publish", "publish_failed"}}

C8_AsStated ==
    /\ Cardinality({i \in Idx : Attempted(i, MSG_START)}) <= 1
    /\ \A i \in Idx : Delivered(i, HEALTH_STATUS_TOPIC, MSG_START) =>
          /\ init_hash # None
          /\ \E j \in 1..(i - 1) :
                IsFetch(j) /\ trace[j].res.kind = "Success"

\* C8, amended: the start message is published exactly once per run, on
\* the health topic, as the first thing main() does, before the bootstrap
\* fetch; no fetch happens unless it was delivered, and it is never
\* published again in any cycle.
C8_StartedOnce ==
    /\ \A i \in Idx : Attempted(i, MSG_START) => i = 1
    /\ pc # "start" =>
          Attempted(1, MSG_START) /\ trace[1].topic = HEALTH_STATUS_TOPIC
    /\ (\E i \in Idx : IsFetch(i)) =>
          Delivered(1, HEALTH_STATUS_TOPIC, MSG_START)

\* Several cycles ran, one of them with a status report.
C8_Witness ==
    /\ pc = "while"
    /\ cycles >= 3
    /\ LastCycleReported
    /\ Delivered(1, HEALTH_STATUS_TOPIC, MSG_START)

\* ===================================================================
\* C9
\* ===================================================================
\* C9: a run that delivered the start message and has ended has published
\* the stop message on the health topic (the call was made, whatever
\* became of it).
C9_AsStated ==
    (RunEnded /\ \E i \in Idx : Delivered(i, HEALTH_STATUS_TOPIC, MSG_START))
        => \E i \in Idx : AttemptedOnHealth(i, MSG_STOPPED)

\* ===================================================================
\* C10
\* ===================================================================
\* A pause lies strictly between positions i and j of the trace.
PauseBetween(i, j) == \E k \in (i + 1)..(j - 1) : trace[k] = EvSleep

\* C10 as stated: between any two fetches of a run, the bootstrap fetch
\* included, there is a pause.
C10_AsStated ==
    \A i, j \in Idx : (IsFetch(i) /\ IsFetch(j) /\ i < j) => PauseBetween(i, j)

\* C10, amended: between any two fetches of the loop there is a pause;
\* the first fetch of the loop follows the bootstrap fetch directly, with
\* no pause between them.
C10_PauseBetweenCycles ==
    /\ \A i, j \in CycleFetchIdx : i < j => PauseBetween(i, j)
    /\ \A i \in CycleFetchIdx :
          (\A j \in CycleFetchIdx : i <= j) => IsFetch(i - 1)

\* Three fetches of the loop have been made.
C10_Witness ==
    /\ pc = "compare"
    /\ Cardinality(CycleFetchIdx) = 3

\* ===================================================================
\* C11
\* ===================================================================
\* The cycle that starts at i made its publish calls, then paused once at
\* k, and what follows the pause is the next fetch or the quit.
PausedOnceAt(i, k) ==
    /\ k \in Idx
    /\ trace[k] = EvSleep
    /\ \A m \in (i + 1)..(k - 1) : m \in PublishIdx
    /\ (k + 1) \in Idx => trace[k + 1].op \in {"fetch", "quit"}

\* C11: every finished cycle, whatever its branch, paused exactly once,
\* after its publish calls and before the next fetch, the quit and the stop
\* message; no pause happens outside a cycle; in a fatal cycle the order
\* is: fetch, publish of the traceback, pause, and only then the quit.
C11_OnePausePerCycle ==
    AtCycleBoundary =>
        /\ \A i \in CycleFetchIdx : \E k \in (i + 1)..(i + 4) : PausedOnceAt(i, k)
        /\ Cardinality({k \in Idx : trace[k] = EvSleep})
              = Cardinality(CycleFetchIdx)
        /\ \A i \in Idx : FatalFetch(i) =>
              /\ AttemptedOnHealth(i + 1, trace[i].res.detail)
              /\ PausedOnceAt(i, i + 2)
              /\ \A q \in Idx :
                    (trace[q] = EvQuit \/ Attempted(q, MSG_STOPPED)) => q > i + 2

\* A fatal cycle published its traceback, paused, and the run then quit the
\* driver and delivered the stop message.
C11_Witness ==
    /\ pc = "done"
    /\ \E i \in Idx :
          /\ FatalFetch(i)
          /\ Delivered(i + 1, HEALTH_STATUS_TOPIC, trace[i].res.detail)
          /\ trace[i + 2] = EvSleep
          /\ trace[i + 3] = EvQuit

\* ===================================================================
\* C12
\* ===================================================================
\* The last fetch of tr is a cycle's fetch of a fingerprint unlike the
\* stored one.
DiffersLast(tr) ==
    \E i \in DOMAIN tr :
        /\ tr[i].op = "fetch"
        /\ tr[i].stored # None
        /\ tr[i].res.kind = "Success"
        /\ get_sha1_hash(tr[i].res.text) # tr[i].stored
        /\ \A j \in (i + 1)..Len(tr) : tr[j].op # "fetch"

\* The call appended by this step, if any, is not the status report.
NoStatusReportStep ==
    Len(trace') > Len(trace) =>
        LET e == trace'[Len(trace')] IN
            e.op \in {"publish", "publish_failed"} => e.msg # MSG_STATUS

\* C12: no step of a cycle that fetched a new fingerprint changes
\* time_counter or publishes the status report, whatever time_counter is;
\* and a cycle whose change was counted made exactly two publish calls,
\* both of the change message.
C12_ChangeCycleFrame ==
    [][ (pc \in {"fetch", "compare", "changed", "echo", "except", "finally"}
           /\ DiffersLast(trace')) =>
          /\ time_counter' = time_counter
          /\ NoStatusReportStep
          /\ (pc = "finally" /\ pc' = "while") =>
                LET n == Len(trace) IN
                    /\ DiffersCycle(n - 2)
                    /\ Notified(n - 2) ]_vars

\* A change was counted while time_counter stood at the report threshold.
C12_Witness ==
    /\ pc = "while"
    /\ DiffersLast(trace)
    /\ change_counter >= 1
    /\ time_counter = TIME_TO_REPORT_STATUS_MIN

\* ===================================================================
\* C13
\* ===================================================================
\* The publish call at i, made by the body of a Success cycle (the change
\* message on either topic, or the status report), raised.
BodyPublishFailed(i) ==
    Failed(i) /\ trace[i].msg \in {MSG_CHANGE_DETECTED, MSG_STATUS}

\* C13: after a publish call of a Success cycle raised, the next call
\* publishes the traceback on the health topic, no fetch follows, and when
\* the run has ended the driver was quit and the stop message was then
\* published on the health topic (the call was made).
C13_AsStated ==
    \A i \in Idx : BodyPublishFailed(i) =>
        /\ pc # "except" => AttemptedOnHealth(i + 1, PublishError)
        /\ \A j \in Idx : j > i => ~IsFetch(j)
        /\ RunEnded =>
              \E q, r \in Idx :
                  /\ i < q /\ q < r
                  /\ trace[q] = EvQuit
                  /\ AttemptedOnHealth(r, MSG_STOPPED)

\* ===================================================================
\* C14
\* ===================================================================
\* The bootstrap fetch was made and did not succeed.
BootstrapFailed ==
    \E i \in Idx :
        IsFetch(i) /\ trace[i].stored = None /\ trace[i].res.kind # "Success"

\* C14: once the bootstrap fetch has failed, in whatever way, the run is
\* over: the trace is the start message and that one fetch, no cycle was
\* started, no fingerprint or counter was set, and nothing else was
\* published.
C14_BootstrapFatal ==
    BootstrapFailed =>
        /\ pc = "crashed"
        /\ Len(trace) = 2
        /\ Delivered(1, HEALTH_STATUS_TOPIC, MSG_START)
        /\ IsFetch(2)
        /\ cycles = 0
        /\ init_hash = None
        /\ change_counter = 0 /\ time_counter = 0

\* The bootstrap fetch timed out and the run is over.
C14_Witness ==
    /\ pc = "crashed"
    /\ Len(trace) = 2
    /\ IsFetch(2)
    /\ trace[2].res.kind = "Timeout"

\* ===================================================================
\* C15
\* ===================================================================
\* The fetch at i succeeded and was processed to the end: the bootstrap
\* fetch, a no-change fetch, or a change whose two messages were delivered.
Processed(i) ==
    /\ i \in Idx
    /\ IsFetch(i)
    /\ trace[i].res.kind = "Success"
    /\ \/ trace[i].stored = None
       \/ SameCycle(i)
       \/ DiffersCycle(i) /\ Notified(i)

\* The fingerprint of the last fetch before position n that was processed.
LastProcessedHash(n) ==
    LET P == {i \in 1..(n - 1) : Processed(i)} IN
        IF P = {} THEN None
        ELSE LET last == CHOOSE i \in P : \A j \in P : j <= i IN
                 get_sha1_hash(trace[last].res.text)

\* C15: init_hash is unset exactly until the bootstrap fetch succeeds;
\* every fetch of the loop is compared with the fingerprint of the last
\* processed fetch before it, and at the end of every cycle init_hash is
\* the fingerprint of the last processed fetch.
C15_LastFingerprint ==
    /\ (init_hash # None) <=> (\E i \in Idx : Processed(i))
    /\ \A j \in CycleFetchIdx : trace[j].stored = LastProcessedHash(j)
    /\ AtCycleBoundary => init_hash = LastProcessedHash(Len(trace) + 1)

\* The page went A -> B -> A and two changes were counted.
C15_Witness ==
    /\ AtCycleBoundary
    /\ change_counter = 2
    /\ init_hash = get_sha1_hash("A")
    /\ trace[2].res = [kind |-> "Success", text |-> "A"]
    /\ \E i \in Idx : DiffersCycle(i) /\ Notified(i) /\ trace[i].res.text = "B"

\* ===================================================================
\* C16
\* ===================================================================
\* C16: however the loop was left, the driver is quit once, right after the
\* last cycle's pause (or after the bootstrap fetch when no cycle ran);
\* the only thing that ever follows the quit is one publish call of the
\* stop message on the health topic, which is the last event of the run;
\* the stop message is published nowhere else, and a run that returned
\* has delivered it.
C16_ShutdownOrder ==
    LET n == Len(trace) IN
    /\ \A q \in Idx : trace[q] = EvQuit =>
          /\ q > 2
          /\ trace[q - 1] = EvSleep \/ (CycleFetchIdx = {} /\ IsFetch(q - 1))
          /\ q >= n - 1
          /\ q = n - 1 => AttemptedOnHealth(n, MSG_STOPPED)
    /\ \A r \in Idx : Attempted(r, MSG_STOPPED) =>
          /\ r = n
          /\ trace[r - 1] = EvQuit
          /\ trace[r].topic = HEALTH_STATUS_TOPIC
    /\ pc = "stop" => trace[n] = EvQuit
    /\ pc = "done" => Delivered(n, HEALTH_STATUS_TOPIC, MSG_STOPPED)

\* The loop was left because the maximum was reached and the run returned.
C16_Witness ==
    /\ pc = "done"
    /\ ~UnexpectedInLoop
    /\ change_counter = WEB_PAGE_MONITOR_CHANGES_TO_EXIT
    /\ change_counter >= 1

\* ===================================================================
\* C17
\* ===================================================================
\* C17: change_counter never exceeds the maximum; a loop iteration is only
\* running its fetch and branch while change_counter is below it; and with
\* a maximum of 0 no cycle runs: the bootstrap fetch is followed directly
\* by the quit and the stop message.
C17_BoundedChanges ==
    /\ change_counter <= WEB_PAGE_MONITOR_CHANGES_TO_EXIT
    /\ pc \in {"fetch", "compare", "changed", "echo", "nochange"}
          => change_counter < WEB_PAGE_MONITOR_CHANGES_TO_EXIT
    /\ WEB_PAGE_MONITOR_CHANGES_TO_EXIT = 0 =>
          /\ cycles = 0
          /\ CycleFetchIdx = {}
          /\ pc \in {"start", "bootstrap", "while", "quit", "stop", "done",
                      "crashed"}
          /\ Len(trace) >= 3 => trace[3] = EvQuit
          /\ Len(trace) >= 4 => AttemptedOnHealth(4, MSG_STOPPED)

\* With a maximum of 0 the run returned after four events.
C17_Witness ==
    /\ WEB_PAGE_MONITOR_CHANGES_TO_EXIT = 0
    /\ pc = "done"
    /\ Len(trace) = 4

\* ===================================================================
\* C18
\* ===================================================================
\* Messages delivered on the change topic so far.
ChangeTopicCount ==
    Cardinality({i \in Idx :
        Delivered(i, CHANGE_STATUS_TOPIC, MSG_CHANGE_DETECTED)})

\* The echo of the last change message raised.
EchoFailed ==
    \E i \in Idx :
        /\ Delivered(i, CHANGE_STATUS_TOPIC, MSG_CHANGE_DETECTED)
        /\ (i + 1) \in Idx
        /\ trace[i + 1] =
              EvPublishFailed(HEALTH_STATUS_TOPIC, MSG_CHANGE_DETECTED)

\* The loop will make no further fetch.
LoopEnding ==
    \/ pc \in {"except", "quit", "stop", "done", "crashed"}
    \/ pc = "finally" /\ after # "continue"

\* C18 as stated: the change topic never got more messages than the
\* maximum, and at every point it got change_counter messages, or one
\* more and then the echo failed and the loop is ending.
C18_AsStated ==
    /\ ChangeTopicCount <= WEB_PAGE_MONITOR_CHANGES_TO_EXIT
    /\ \/ ChangeTopicCount = change_counter
       \/ /\ ChangeTopicCount = change_counter + 1
          /\ EchoFailed
          /\ LoopEnding

\* C18, amended: the change topic never got more messages than the
\* maximum, and at every point it got change_counter messages, or one
\* more: either while the cycle is between its change-topic publish and
\* its update of the counter, or when the echo failed and the loop is
\* ending.
C18_ChangeTopicCount ==
    /\ ChangeTopicCount <= WEB_PAGE_MONITOR_CHANGES_TO_EXIT
    /\ \/ ChangeTopicCount = change_counter
       \/ /\ ChangeTopicCount = change_counter + 1
          /\ \/ pc = "echo"
             \/ EchoFailed /\ LoopEnding

\* The echo of the last allowed change failed and the run is over.
C18_Witness ==
    /\ RunEnded
    /\ EchoFailed
    /\ ChangeTopicCount = WEB_PAGE_MONITOR_CHANGES_TO_EXIT
    /\ change_counter = WEB_PAGE_MONITOR_CHANGES_TO_EXIT - 1
    /\ change_counter >= 1

====
